---------------------------- MODULE Spec2Model ----------------------------
(***************************************************************************)
(* A model of the spreadsheet extraction engine of src/app.py: get_header, *)
(* normalize_percent, get_components, nearest_value, get_nodes,            *)
(* get_detail_blocks and parse_supply_chain_excel.                         *)
(*                                                                         *)
(* A text is a sequence of one-character strings, so that strip, lower,    *)
(* substring tests, splitlines and len are computed as Python computes     *)
(* them.  A number is held in hundredths (92.5 is 9250) together with its  *)
(* Python type (int or float); a native date is held as y*10000+m*100+d.   *)
(* Row and column indices are 0-based, as in the source.                   *)
(***************************************************************************)
EXTENDS Integers, Sequences, FiniteSets, TLC

VARIABLES
    grid,                  \* df: the sequence of rows, each a sequence of cells
    nrows,                 \* df.shape[0]
    ncols,                 \* df.shape[1]
    todo,                  \* the extractors parse_supply_chain_excel still has to call
    pc,                    \* the position inside the running extractor
    i,                     \* the loop index of the running extractor
    header,                \* get_header: the dict under construction
    components,            \* get_components: the list returned
    coords_dg,             \* get_nodes: the anchor columns found
    previous_right_type,   \* get_nodes: chaining state
    previous_right_party,  \* get_nodes: chaining state
    nodes,                 \* get_nodes: the list under construction
    blocks,                \* get_detail_blocks: the list under construction
    error                  \* the exception that ended the call, or "none"

vars == <<grid, nrows, ncols, todo, pc, i, header, components, coords_dg,
          previous_right_type, previous_right_party, nodes, blocks, error>>

---------------------------------------------------------------------------
(* Text: str methods used by the source.                                   *)

Whitespace == {" ", "\n", "\t"}

DigitSeq == <<"0", "1", "2", "3", "4", "5", "6", "7", "8", "9">>

Digits == {DigitSeq[d] : d \in DOMAIN DigitSeq}

UpperSeq == <<"A", "B", "C", "D", "E", "F", "G", "H", "I", "J", "K", "L", "M",
              "N", "O", "P", "Q", "R", "S", "T", "U", "V", "W", "X", "Y", "Z">>

LowerSeq == <<"a", "b", "c", "d", "e", "f", "g", "h", "i", "j", "k", "l", "m",
              "n", "o", "p", "q", "r", "s", "t", "u", "v", "w", "x", "y", "z">>

\* ch.lower()
LowerChar(ch) ==
    IF \E d \in DOMAIN UpperSeq : UpperSeq[d] = ch
    THEN LowerSeq[CHOOSE d \in DOMAIN UpperSeq : UpperSeq[d] = ch]
    ELSE ch

\* s.lower()
Lower(s) == [d \in 1..Len(s) |-> LowerChar(s[d])]

RECURSIVE LStrip(_)
LStrip(s) ==
    IF s = <<>> THEN s
    ELSE IF Head(s) \in Whitespace THEN LStrip(Tail(s)) ELSE s

RECURSIVE RStrip(_)
RStrip(s) ==
    IF s = <<>> THEN s
    ELSE IF s[Len(s)] \in Whitespace THEN RStrip(SubSeq(s, 1, Len(s) - 1)) ELSE s

\* s.strip()
Strip(s) == RStrip(LStrip(s))

\* sub in s
Contains(sub, s) ==
    \E d \in 0..(Len(s) - Len(sub)) : SubSeq(s, d + 1, d + Len(sub)) = sub

\* s.startswith(p)
StartsWith(s, p) == Len(p) <= Len(s) /\ SubSeq(s, 1, Len(p)) = p

\* s.endswith(p)
EndsWith(s, p) == Len(p) <= Len(s) /\ SubSeq(s, Len(s) - Len(p) + 1, Len(s)) = p

\* any(ch.isdigit() for ch in s)
HasDigit(s) == \E d \in 1..Len(s) : s[d] \in Digits

\* s.replace(ch, "")
RemoveChar(s, ch) == SelectSeq(s, LAMBDA x : x # ch)

\* s.splitlines()
RECURSIVE SplitLines(_)
SplitLines(s) ==
    IF s = <<>> THEN <<>>
    ELSE IF \E d \in 1..Len(s) : s[d] = "\n"
         THEN LET nl == CHOOSE d \in 1..Len(s) :
                            s[d] = "\n" /\ \A e \in 1..(d - 1) : s[e] # "\n"
              IN  <<SubSeq(s, 1, nl - 1)>> \o SplitLines(SubSeq(s, nl + 1, Len(s)))
         ELSE <<s>>

---------------------------------------------------------------------------
(* Values: what a cell of the DataFrame, or a field of a result, holds.    *)

NaN == [k |-> "nan", n |-> 0, s |-> <<>>]             \* an empty cell (float NaN)
None == [k |-> "None", n |-> 0, s |-> <<>>]           \* Python None
Str(t) == [k |-> "str", n |-> 0, s |-> t]             \* a text
IntV(h) == [k |-> "int", n |-> h, s |-> <<>>]         \* an int, in hundredths
FloatV(h) == [k |-> "float", n |-> h, s |-> <<>>]     \* a float, in hundredths
DateV(ymd) == [k |-> "date", n |-> ymd, s |-> <<>>]   \* a pd.Timestamp

\* isinstance(v, str)
IsStr(v) == v.k = "str"

\* isinstance(v, (int, float, np.integer, np.floating)) and not pd.isna(v)
IsNumber(v) == v.k \in {"int", "float"}

\* isinstance(v, (pd.Timestamp, datetime))
IsDate(v) == v.k = "date"

\* pd.isna(v)
IsNa(v) == v.k \in {"nan", "None"}

\* bool(v) for the values the source tests for truth: None and "" are falsy
Truthy(v) == ~(v.k = "None" \/ (v.k = "str" /\ v.s = <<>>))

RECURSIVE NatToStr(_)
NatToStr(m) ==
    IF m < 10 THEN <<DigitSeq[m + 1]>>
    ELSE NatToStr(m \div 10) \o <<DigitSeq[(m % 10) + 1]>>

Abs(h) == IF h < 0 THEN -h ELSE h

SignStr(h) == IF h < 0 THEN <<"-">> ELSE <<>>

\* str(int(x)): the integral part, no decimal point
IntStr(h) == SignStr(h) \o NatToStr(Abs(h) \div 100)

\* str(x) for a float x: the shortest repr, which always has a decimal point
FloatStr(h) ==
    LET frac == Abs(h) % 100
    IN  IntStr(h) \o <<".">> \o
        (IF frac % 10 = 0 THEN <<DigitSeq[(frac \div 10) + 1]>>
         ELSE <<DigitSeq[(frac \div 10) + 1], DigitSeq[(frac % 10) + 1]>>)

\* two decimal digits, zero padded (the %m and %d of strftime)
Pad2(m) == <<DigitSeq[(m \div 10) + 1], DigitSeq[(m % 10) + 1]>>

\* val.strftime("%Y-%m-%d")
Strftime(v) ==
    NatToStr(v.n \div 10000) \o <<"-">> \o Pad2((v.n \div 100) % 100)
        \o <<"-">> \o Pad2(v.n % 100)

\* str(v)
PyStr(v) ==
    CASE v.k = "str" -> v.s
      [] v.k = "int" -> IntStr(v.n)
      [] v.k = "float" -> FloatStr(v.n)
      [] v.k = "date" -> Strftime(v) \o <<" ", "0", "0", ":", "0", "0", ":", "0", "0">>
      [] v.k = "nan" -> <<"n", "a", "n">>
      [] OTHER -> <<"N", "o", "n", "e">>

---------------------------------------------------------------------------
(* The DataFrame.                                                          *)

\* 0 <= r < df.shape[0] and 0 <= c < df.shape[1]
InBounds(r, c) == 0 <= r /\ r < nrows /\ 0 <= c /\ c < ncols

\* df.iat[r, c], for (r, c) in bounds; the actions raise IndexError before
\* they evaluate it out of bounds
iat(r, c) == grid[r + 1][c + 1]

\* list(df.iloc[r])
iloc(r) == grid[r + 1]

\* label in row
InRow(label, row) == \E d \in 1..Len(row) : row[d] = Str(label)

\* row.index(label): the 0-based position of the first cell equal to label
RowIndex(label, row) ==
    (CHOOSE d \in 1..Len(row) :
        row[d] = Str(label) /\ \A e \in 1..(d - 1) : row[e] # Str(label)) - 1

---------------------------------------------------------------------------
(* normalize_percent                                                        *)

RECURSIVE DigitsToNat(_)
DigitsToNat(ds) ==
    IF ds = <<>> THEN 0
    ELSE 10 * DigitsToNat(SubSeq(ds, 1, Len(ds) - 1))
            + ((CHOOSE d \in DOMAIN DigitSeq : DigitSeq[d] = ds[Len(ds)]) - 1)

\* float(s) for a text s: [ok |-> FALSE] is ValueError.  Decimal literals with
\* an optional sign and up to two fractional digits, and "nan", are parsed;
\* every other text of the model's inputs is a ValueError in Python too.
ParseFloat(s) ==
    LET t    == Strip(s)
        neg  == t # <<>> /\ Head(t) = "-"
        body == IF t # <<>> /\ Head(t) \in {"-", "+"} THEN Tail(t) ELSE t
        dots == {d \in 1..Len(body) : body[d] = "."}
        dot  == IF dots = {} THEN Len(body) + 1 ELSE CHOOSE d \in dots : TRUE
        ip   == SubSeq(body, 1, dot - 1)
        fp   == SubSeq(body, dot + 1, Len(body))
        mag  == 100 * DigitsToNat(ip)
                  + (IF Len(fp) = 0 THEN 0
                     ELSE IF Len(fp) = 1 THEN 10 * DigitsToNat(fp)
                     ELSE DigitsToNat(fp))
    IN  IF Lower(body) = <<"n", "a", "n">>
        THEN [ok |-> TRUE, v |-> NaN]
        ELSE IF /\ Cardinality(dots) <= 1
                /\ Len(ip) + Len(fp) >= 1
                /\ Len(fp) <= 2
                /\ \A d \in 1..Len(body) : d # dot => body[d] \in Digits
        THEN [ok |-> TRUE, v |-> FloatV(IF neg THEN -mag ELSE mag)]
        ELSE [ok |-> FALSE, v |-> None]

\* ScaleFraction without the test of line 152: every number is multiplied
ScaleFraction_always(h) == h * 100

\* lines 151-154: a float in [0, 1] (0..100 hundredths) is a fraction
ScaleFraction(h) == IF 0 <= h /\ h <= 100 THEN h * 100 ELSE h

normalize_percent(val) ==
    IF IsNa(val) THEN None
    ELSE IF IsStr(val)
    THEN LET s == RemoveChar(Strip(val.s), "%")
             f == ParseFloat(s)
         IN  IF s = <<>> THEN None
             ELSE IF ~f.ok THEN None
             ELSE f.v
    ELSE IF ~IsNumber(val) THEN None       \* float(Timestamp): TypeError
    ELSE FloatV(ScaleFraction(val.n))

---------------------------------------------------------------------------
(* get_header                                                               *)

Absent == [k |-> "absent", n |-> 0, s |-> <<>>]       \* the key is not in the dict

VendorNumberLabel == <<"V", "e", "n", "d", "o", "r", " ", "N", "u", "m", "b", "e", "r">>
ItemLabel == <<"I", "t", "e", "m">>
ItemNumberLabel == <<"I", "t", "e", "m", " ", "N", "u", "m", "b", "e", "r">>
ShipDateLabel == <<"S", "h", "i", "p", " ", "D", "a", "t", "e", ":">>
POQuantityLabel == <<"P", "O", " ", "Q", "u", "a", "n", "t", "i", "t", "y", ":">>

EmptyHeader ==
    [vendor_number |-> Absent, item |-> Absent, item_number |-> Absent,
     ship_date |-> Absent, po_quantity |-> Absent]

\* the `if` of one label fires on this row (the Item one also needs the key unset)
Fires(label, row, h) ==
    InRow(label, row) /\ (label = ItemLabel => h.item = Absent)

\* row[j + 1] is past the end of the row
RightMissing(label, row) == RowIndex(label, row) + 1 >= Len(row)

\* row[j + 1]
RightOf(label, row) == row[RowIndex(label, row) + 2]

HeaderLabels == {VendorNumberLabel, ItemLabel, ItemNumberLabel, ShipDateLabel, POQuantityLabel}

\* lines 105-120 raise IndexError on this row
HeaderRowRaises(row, h) ==
    \E label \in HeaderLabels : Fires(label, row, h) /\ RightMissing(label, row)

\* header[key] = row[j + 1] when the label's `if` fires, else unchanged
Assign(label, row, h, old) == IF Fires(label, row, h) THEN RightOf(label, row) ELSE old

\* lines 105-120: the dict after one row
HeaderAfterRow(row, h) ==
    [vendor_number |-> Assign(VendorNumberLabel, row, h, h.vendor_number),
     item          |-> Assign(ItemLabel, row, h, h.item),
     item_number   |-> Assign(ItemNumberLabel, row, h, h.item_number),
     ship_date     |-> Assign(ShipDateLabel, row, h, h.ship_date),
     po_quantity   |-> Assign(POQuantityLabel, row, h, h.po_quantity)]

\* lines 122-123
ShipDateToString(h) ==
    IF IsDate(h.ship_date)
    THEN [h EXCEPT !.ship_date = Str(Strftime(h.ship_date))]
    ELSE h

---------------------------------------------------------------------------
(* get_components                                                           *)

ComponentBreakdown ==
    <<"C", "o", "m", "p", "o", "n", "e", "n", "t", " ",
      "B", "r", "e", "a", "k", "d", "o", "w", "n">>

MajorFabricBreakdown ==
    <<"M", "a", "j", "o", "r", " ", "F", "a", "b", "r", "i", "c", " ",
      "B", "r", "e", "a", "k", "d", "o", "w", "n">>

\* lines 174-178: the component cell is blank
BlankName(v) == v.k = "None" \/ v.k = "nan" \/ (IsStr(v) /\ Strip(v.s) = <<>>)

\* str(v).strip() if pd.notna(v) else None
StrOrNone(v) == IF IsNa(v) THEN None ELSE Str(Strip(PyStr(v)))

\* df.iat[k, c] if c < df.shape[1] else None
CellOrNone(k, c) == IF c < ncols THEN iat(k, c) ELSE None

\* lines 185-192
ComponentA(k, j) ==
    [name    |-> Str(Strip(PyStr(iat(k, j)))),
     percent |-> normalize_percent(CellOrNone(k, j + 1)),
     origin  |-> StrOrNone(CellOrNone(k, j + 2)),
     remarks |-> StrOrNone(CellOrNone(k, j + 3))]

\* RunA with `continue` in place of the `break` of line 179
RECURSIVE RunA_skipBlank(_, _)
RunA_skipBlank(k, j) ==
    IF k >= nrows THEN <<>>
    ELSE IF BlankName(iat(k, j)) THEN RunA_skipBlank(k + 1, j)
    ELSE <<ComponentA(k, j)>> \o RunA_skipBlank(k + 1, j)

\* lines 170-192: the rows from k down to the first blank component cell
RECURSIVE RunA(_, _)
RunA(k, j) ==
    IF k >= nrows \/ BlankName(iat(k, j)) THEN <<>>
    ELSE <<ComponentA(k, j)>> \o RunA(k + 1, j)

\* lines 161-195: the rows from r down, until a label row yields components
RECURSIVE FormatAFrom(_)
FormatAFrom(r) ==
    IF r >= nrows THEN <<>>
    ELSE IF InRow(ComponentBreakdown, iloc(r))
              /\ RunA(r + 1, RowIndex(ComponentBreakdown, iloc(r))) # <<>>
         THEN RunA(r + 1, RowIndex(ComponentBreakdown, iloc(r)))
         ELSE FormatAFrom(r + 1)

FormatA == FormatAFrom(0)

\* line 203
IsFabricHeader(v) == IsStr(v) /\ Contains(MajorFabricBreakdown, v.s)

\* lines 201-205: the first column of row r holding the header, or -1 (None)
HeaderCol(r) ==
    IF \E c \in 0..(ncols - 1) : IsFabricHeader(iat(r, c))
    THEN CHOOSE c \in 0..(ncols - 1) :
             IsFabricHeader(iat(r, c)) /\ \A e \in 0..(c - 1) : ~IsFabricHeader(iat(r, e))
    ELSE -1

\* lines 218-224: what the companion label at (r, c) names
Companion(r, c) ==
    LET text == Lower(Strip(iat(r, c).s))
    IN  IF ~IsStr(iat(r, c)) THEN "other"
        ELSE IF text = <<"%">> \/ EndsWith(text, <<"%">>) THEN "percent"
        ELSE IF StartsWith(text, <<"o", "r", "i", "g", "i", "n">>) THEN "origin"
        ELSE IF StartsWith(text, <<"r", "e", "m", "a", "r", "k", "s">>) THEN "remarks"
        ELSE "other"

\* lines 213-224: the last column right of hc in row r with that companion
\* label, or -1 (None)
CompanionCol(r, hc, what) ==
    LET cs == {c \in (hc + 1)..(ncols - 1) : Companion(r, c) = what}
    IN  IF cs = {} THEN -1 ELSE CHOOSE c \in cs : \A e \in cs : e <= c

\* df.iat[k, c] if c is not None else None
CellIfCol(k, c) == IF c >= 0 THEN iat(k, c) ELSE None

\* lines 227-243: the rows from k down to the first name that is no text
RECURSIVE RunB(_, _, _)
RunB(k, r, hc) ==
    IF k >= nrows \/ ~IsStr(iat(k, hc)) \/ Strip(iat(k, hc).s) = <<>> THEN <<>>
    ELSE <<[name    |-> Str(Strip(iat(k, hc).s)),
            percent |-> normalize_percent(CellIfCol(k, CompanionCol(r, hc, "percent"))),
            origin  |-> StrOrNone(CellIfCol(k, CompanionCol(r, hc, "origin"))),
            remarks |-> StrOrNone(CellIfCol(k, CompanionCol(r, hc, "remarks")))]>>
         \o RunB(k + 1, r, hc)

\* FormatBFrom with the break of line 245 taken only once a component was
\* read: a header row without data rows leaves the search going
RECURSIVE FormatBFrom_untilData(_)
FormatBFrom_untilData(r) ==
    IF r >= nrows THEN <<>>
    ELSE IF HeaderCol(r) < 0 \/ RunB(r + 1, r, HeaderCol(r)) = <<>>
         THEN FormatBFrom_untilData(r + 1)
         ELSE RunB(r + 1, r, HeaderCol(r))

\* lines 198-247: the first header row from r down is the only one handled
RECURSIVE FormatBFrom(_)
FormatBFrom(r) ==
    IF r >= nrows THEN <<>>
    ELSE IF HeaderCol(r) < 0 THEN FormatBFrom(r + 1)
    ELSE RunB(r + 1, r, HeaderCol(r))

FormatB == FormatBFrom(0)

---------------------------------------------------------------------------
(* nearest_value                                                            *)

\* lines 256-258: the columns tried, in order: col, col+1, col-1, col+2, ...
NearestOrder(col_idx, window) ==
    [d \in 1..(2 * window + 1) |->
        IF d = 1 THEN col_idx
        ELSE IF d % 2 = 0 THEN col_idx + (d \div 2)
        ELSE col_idx - (d \div 2)]

\* lines 261-264: the cell is returned
NearestHit(v) == (IsStr(v) /\ Strip(v.s) # <<>>) \/ (~IsStr(v) /\ ~IsNa(v))

\* lines 261-264: what is returned for it
NearestText(v) == IF IsStr(v) THEN Str(Strip(v.s)) ELSE Str(PyStr(v))

nearest_value(row_idx, col_idx, window) ==
    LET order == NearestOrder(col_idx, window)
        hits  == SelectSeq(order,
                     LAMBDA c : 0 <= c /\ c < ncols /\ NearestHit(iat(row_idx, c)))
    IN  IF hits = <<>> THEN None ELSE NearestText(iat(row_idx, Head(hits)))

---------------------------------------------------------------------------
(* get_nodes                                                                *)

row_material == 9
row_company_type == 11
row_company_name == 12
row_location == 13
row_remarks == 15
row_date == 16
row_qty == 17
docs_start == 18
docs_end == 27

\* line 415, line 444: a date text longer than this is a sentence
MaxDateLen == 40

NoneText == <<"n", "o", "n", "e">>

DocumentGroup == <<"D", "o", "c", "u", "m", "e", "n", "t", " ", "G", "r", "o", "u", "p">>

GoodsAreShipped ==
    <<"g", "o", "o", "d", "s", " ", "a", "r", "e", " ",
      "s", "h", "i", "p", "p", "e", "d">>

\* lines 300-303
UnitWords ==
    {<<"k", "g">>,
     <<"k", "i", "l", "o", "g", "r", "a", "m">>,
     <<"m", "e", "t", "r", "i", "c", " ", "t", "o", "n">>,
     <<"m", "e", "t", "r", "i", "c", " ", "t", "o", "n", "s">>,
     <<"m", "t">>,
     <<"b", "a", "l", "e">>,
     <<"b", "a", "l", "e", "s">>,
     <<"t", "o", "n", "s">>,
     <<"t", "o", "n">>}

\* lines 276-277
clean(val) == IF IsStr(val) /\ Strip(val.s) # <<>> THEN Str(Strip(val.s)) ELSE None

\* lines 279-290
combine(name, loc) ==
    LET nm == clean(name)
        lc == clean(loc)
    IN  IF Truthy(nm) /\ Truthy(lc)
        THEN IF Contains(nm.s, lc.s) THEN lc
             ELSE Str(nm.s \o <<",", " ">> \o lc.s)
        ELSE IF Truthy(nm) THEN nm
        ELSE IF Truthy(lc) THEN lc
        ELSE None

\* lines 293-307, for a text
looks_like_quantity(text) ==
    (\E u \in UnitWords : Contains(u, Lower(text))) \/ HasDigit(Lower(text))

\* lines 382-394
looks_like_date(val) ==
    IF IsDate(val) THEN TRUE
    ELSE IF ~IsStr(val) THEN FALSE
    ELSE LET s == Strip(val.s)
         IN  s # <<>> /\ HasDigit(s) /\ (\E d \in 1..Len(s) : s[d] \in {"/", "-"})

\* lines 324-328: the columns of the company-type row that start a group
IsAnchor(c) == IsStr(iat(row_company_type, c)) /\ StartsWith(iat(row_company_type, c).s, DocumentGroup)

\* AnchorsFrom with the columns of line 325 taken from the right
RECURSIVE AnchorsFrom_descending(_)
AnchorsFrom_descending(c) ==
    IF c >= ncols THEN <<>>
    ELSE AnchorsFrom_descending(c + 1) \o (IF IsAnchor(c) THEN <<c>> ELSE <<>>)

RECURSIVE AnchorsFrom(_)
AnchorsFrom(c) ==
    IF c >= ncols THEN <<>>
    ELSE (IF IsAnchor(c) THEN <<c>> ELSE <<>>) \o AnchorsFrom(c + 1)

\* df.iat[r, c] if c - 1 >= 0 / c + 1 < df.shape[1] else None (lines 344-352)
BoxCell(r, c) == IF 0 <= c /\ c < ncols THEN iat(r, c) ELSE None

\* line 339: the left box is chained from the previous group
Chained(prp) == Truthy(prp)

\* lines 339-347
LeftType(col, prt, prp) ==
    IF Chained(prp) THEN prt ELSE BoxCell(row_company_type, col - 1)

LeftParty(col, prp) ==
    IF Chained(prp) THEN prp
    ELSE combine(BoxCell(row_company_name, col - 1), BoxCell(row_location, col - 1))

\* lines 350-353
RightType(col) == BoxCell(row_company_type, col + 1)

RightParty(col) ==
    combine(BoxCell(row_company_name, col + 1), BoxCell(row_location, col + 1))

\* Quantity without the non-blank and digit tests of line 372
Quantity_anyText(col) ==
    LET raw_qty == IF row_qty < nrows THEN iat(row_qty, col) ELSE None
    IN  IF IsNumber(raw_qty)
        THEN IF raw_qty.k = "float" /\ raw_qty.n % 100 # 0
             THEN Str(FloatStr(raw_qty.n))
             ELSE Str(IntStr(raw_qty.n))
        ELSE IF IsStr(raw_qty)
        THEN Str(Strip(raw_qty.s))
        ELSE Str(NoneText)

\* lines 362-376
Quantity(col) ==
    LET raw_qty == IF row_qty < nrows THEN iat(row_qty, col) ELSE None
    IN  IF IsNumber(raw_qty)
        THEN IF raw_qty.k = "float" /\ raw_qty.n % 100 # 0
             THEN Str(FloatStr(raw_qty.n))
             ELSE Str(IntStr(raw_qty.n))
        ELSE IF IsStr(raw_qty) /\ Strip(raw_qty.s) # <<>> /\ HasDigit(raw_qty.s)
        THEN Str(Strip(raw_qty.s))
        ELSE Str(NoneText)

\* DateWindow with the columns of line 400 taken from left to right
DateWindow_leftToRight(col) ==
    LET offs == <<-1, 0, 1>>
        all  == [d \in 1..9 |-> <<row_date + ((d - 1) \div 3), col + offs[((d - 1) % 3) + 1]>>]
    IN  SelectSeq(all, LAMBDA rc : InBounds(rc[1], rc[2]))

\* line 399, line 400: the cells of the date window in search order, rows
\* row_date..row_date+2 outside, columns col, col-1, col+1 inside
DateWindow(col) ==
    LET offs == <<0, -1, 1>>
        all  == [d \in 1..9 |-> <<row_date + ((d - 1) \div 3), col + offs[((d - 1) % 3) + 1]>>]
    IN  SelectSeq(all, LAMBDA rc : InBounds(rc[1], rc[2]))

\* lines 404-410: the date text a matching cell gives
DateText(val) == IF IsDate(val) THEN Strftime(val) ELSE Strip(PyStr(val))

\* lines 396-412
FoundDate(col) ==
    LET hits == SelectSeq(DateWindow(col), LAMBDA rc : looks_like_date(iat(rc[1], rc[2])))
    IN  IF hits = <<>> THEN NoneText
        ELSE DateText(iat(Head(hits)[1], Head(hits)[2]))

\* lines 425-430: the lines of one cell of the documents rows
DocParts(v) ==
    IF IsStr(v) /\ Strip(v.s) # <<>>
    THEN SelectSeq([d \in 1..Len(SplitLines(v.s)) |-> Strip(SplitLines(v.s)[d])],
                   LAMBDA part : part # <<>>)
    ELSE <<>>

\* lines 422-430
RECURSIVE DocsFrom(_, _)
DocsFrom(r, col) ==
    IF r > docs_end THEN <<>>
    ELSE DocParts(iat(r, col)) \o DocsFrom(r + 1, col)

\* line 415: the first test for a sentence in place of a date
IsLongDate(date) == Len(date) > MaxDateLen

\* IsSentence without the phrase test of line 444
IsSentence_lengthOnly(s) == Len(s) > MaxDateLen

\* lines 441-444: the second test, on the stripped text
IsSentence(s) == Contains(GoodsAreShipped, Lower(s)) \/ Len(s) > MaxDateLen

\* lines 414-418 and 440-448: the date and remarks after both resets
DateAndRemarks(date0, remarks0) ==
    LET d1 == IF IsLongDate(date0) THEN NoneText ELSE date0
        r1 == IF IsLongDate(date0) /\ ~Truthy(remarks0) THEN Str(date0) ELSE remarks0
        s  == Strip(d1)
        hit == s # <<>> /\ IsSentence(s)
    IN  [date    |-> IF hit THEN NoneText ELSE d1,
         remarks |-> IF hit /\ ~Truthy(r1) THEN Str(s) ELSE r1]

\* line 452: the quantity is empty or "none" and there is a document line
Promotable(quantity, docs) ==
    (quantity.s = <<>> \/ Lower(Strip(quantity.s)) = NoneText) /\ docs # <<>>

\* Promotes without the test of line 454: any first line is promoted
Promotes_anyLine(quantity, docs) == Promotable(quantity, docs)

\* lines 452-456: the first document line becomes the quantity
Promotes(quantity, docs) == Promotable(quantity, docs) /\ looks_like_quantity(Head(docs))

\* lines 334-478: the node of the anchor column col
Node(col, prt, prp) ==
    LET dr   == DateAndRemarks(FoundDate(col), nearest_value(row_remarks, col, 1))
        qty  == Quantity(col)
        docs == DocsFrom(docs_start, col)
    IN  [group       |-> iat(row_company_type, col),
         material    |-> clean(iat(row_material, col)),
         left_type   |-> clean(LeftType(col, prt, prp)),
         left_party  |-> LeftParty(col, prp),
         right_type  |-> clean(RightType(col)),
         right_party |-> RightParty(col),
         date        |-> Str(dr.date),
         quantity    |-> IF Promotes(qty, docs) THEN Str(Head(docs)) ELSE qty,
         remarks     |-> dr.remarks,
         documents   |-> IF Promotes(qty, docs) THEN Tail(docs) ELSE docs]

---------------------------------------------------------------------------
(* get_detail_blocks                                                        *)

RecordWord == <<"r", "e", "c", "o", "r", "d">>

\* lines 502-505
safe(r, c) == IF InBounds(r, c) THEN iat(r, c) ELSE None

\* lines 497, 524-530: re.match(r"^\(.+?\)$", cell.strip()); "." matches any
\* character but a newline
IsTitle(cell) ==
    /\ IsStr(cell)
    /\ LET t == Strip(cell.s)
       IN  /\ Len(t) >= 3
           /\ t[1] = "("
           /\ t[Len(t)] = ")"
           /\ \A d \in 2..(Len(t) - 1) : t[d] # "\n"

RECURSIVE LStripParens(_)
LStripParens(s) ==
    IF s = <<>> THEN s
    ELSE IF Head(s) \in {"(", ")"} THEN LStripParens(Tail(s)) ELSE s

RECURSIVE RStripParens(_)
RStripParens(s) ==
    IF s = <<>> THEN s
    ELSE IF s[Len(s)] \in {"(", ")"} THEN RStripParens(SubSeq(s, 1, Len(s) - 1)) ELSE s

\* line 532: raw_title.strip("()").strip()
BlockType(cell) == Strip(RStripParens(LStripParens(Strip(cell.s))))

\* lines 538-546
RECURSIVE BlockDateFrom(_, _, _)
BlockDateFrom(r, last, col) ==
    IF r >= last THEN NoneText
    ELSE IF looks_like_date(safe(r, col)) THEN DateText(safe(r, col))
    ELSE BlockDateFrom(r + 1, last, col)

BlockDate(row, col) ==
    BlockDateFrom(row + 4, IF row + 9 < nrows THEN row + 9 ELSE nrows, col)

\* lines 556, 563: the cell is a non-blank text
IsLine(v) == IsStr(v) /\ Strip(v.s) # <<>>

\* lines 553-558: the first row at or below r holding a line, or max_row
RECURSIVE SkipBlanks(_, _)
SkipBlanks(r, col) ==
    IF r >= nrows \/ IsLine(safe(r, col)) THEN r ELSE SkipBlanks(r + 1, col)

\* lines 561-571: the lines collected from row r down to the first blank
RECURSIVE CollectLines(_, _)
CollectLines(r, col) ==
    IF r >= nrows \/ ~IsLine(safe(r, col)) THEN <<>>
    ELSE <<Strip(safe(r, col).s)>> \o CollectLines(r + 1, col)

\* line 566: the line is taken as the title
IsRecordLine(text) == Contains(RecordWord, Lower(text))

\* Classify without `doc_title is None` in line 566: every "record" line
\* replaces the title
RECURSIVE Classify_lastRecord(_, _, _)
Classify_lastRecord(lines, doc_title, documents) ==
    IF lines = <<>> THEN [doc_title |-> doc_title, documents |-> documents]
    ELSE IF IsRecordLine(Head(lines))
         THEN Classify_lastRecord(Tail(lines), Str(Head(lines)), documents)
         ELSE Classify_lastRecord(Tail(lines), doc_title, Append(documents, Head(lines)))

\* lines 549-571: doc_title and documents after the collecting loop
RECURSIVE Classify(_, _, _)
Classify(lines, doc_title, documents) ==
    IF lines = <<>> THEN [doc_title |-> doc_title, documents |-> documents]
    ELSE IF doc_title = None /\ IsRecordLine(Head(lines))
         THEN Classify(Tail(lines), Str(Head(lines)), documents)
         ELSE Classify(Tail(lines), doc_title, Append(documents, Head(lines)))

\* lines 573-578: the fallback on the first document
Fallback(td) ==
    IF td.doc_title = None /\ td.documents # <<>> /\ IsRecordLine(Head(td.documents))
    THEN [doc_title |-> Str(Head(td.documents)), documents |-> Tail(td.documents)]
    ELSE td

\* lines 548-578
TitleAndDocuments(row, col) ==
    Fallback(Classify(CollectLines(SkipBlanks(row + 5, col), col), None, <<>>))

\* EmptyBlock with `not doc_title` alone in line 581
EmptyBlock_untitled(td) == ~Truthy(td.doc_title)

\* line 581: the block is dropped
EmptyBlock(td) == ~Truthy(td.doc_title) /\ td.documents = <<>>

\* lines 584-593
Block(row, col) ==
    [type      |-> BlockType(iat(row, col)),
     name      |-> safe(row + 1, col),
     location  |-> safe(row + 2, col),
     date      |-> Str(BlockDate(row, col)),
     doc_title |-> TitleAndDocuments(row, col).doc_title,
     documents |-> TitleAndDocuments(row, col).documents]

\* lines 521-530: the cells of the scan in column-major order, numbered
\* col * max_row + row
CellRow(p) == p % nrows

CellCol(p) == p \div nrows

IsTitleAt(p) == IsTitle(iat(CellRow(p), CellCol(p)))

---------------------------------------------------------------------------
(* parse_supply_chain_excel: the calls and how each one ends.              *)

\* where each extractor starts
EntryPc(name) ==
    CASE name = "get_header" -> "header_row"
      [] name = "get_components" -> "format_a"
      [] name = "get_nodes" -> "find_dg"
      [] OTHER -> "detail_scan"

\* lines 603-607: the extractor returns and the next one is called
Return ==
    /\ todo' = Tail(todo)
    /\ pc' = IF Tail(todo) = <<>> THEN "done" ELSE EntryPc(Head(Tail(todo)))
    /\ i' = 0
    /\ error' = error

\* an exception leaves the extractor and parse_supply_chain_excel
Raise(e) ==
    /\ error' = e
    /\ todo' = <<>>
    /\ pc' = "done"
    /\ i' = i

\* the state parse_supply_chain_excel starts from, the grid left open
Called(names) ==
    /\ todo = names
    /\ pc = EntryPc(Head(names))
    /\ i = 0
    /\ header = EmptyHeader
    /\ components = <<>>
    /\ coords_dg = <<>>
    /\ previous_right_type = None
    /\ previous_right_party = None
    /\ nodes = <<>>
    /\ blocks = <<>>
    /\ error = "none"

---------------------------------------------------------------------------
(* get_header, one row of the loop at a time.                              *)

get_header_row ==
    /\ pc = "header_row"
    /\ i < nrows
    /\ ~HeaderRowRaises(iloc(i), header)
    /\ header' = HeaderAfterRow(iloc(i), header)
    /\ i' = i + 1
    /\ UNCHANGED <<grid, nrows, ncols, todo, pc, components, coords_dg,
                   previous_right_type, previous_right_party, nodes, blocks, error>>

get_header_raise ==
    /\ pc = "header_row"
    /\ i < nrows
    /\ HeaderRowRaises(iloc(i), header)
    /\ Raise("IndexError")
    /\ UNCHANGED <<grid, nrows, ncols, header, components, coords_dg,
                   previous_right_type, previous_right_party, nodes, blocks>>

get_header_return ==
    /\ pc = "header_row"
    /\ i >= nrows
    /\ header' = ShipDateToString(header)
    /\ Return
    /\ UNCHANGED <<grid, nrows, ncols, components, coords_dg,
                   previous_right_type, previous_right_party, nodes, blocks>>

---------------------------------------------------------------------------
(* get_components: Format A, then Format B.                                *)

\* format_a_return without the return of line 195: Format B appends to
\* the list of Format A
format_a_return_merged ==
    /\ pc = "format_a"
    /\ FormatA # <<>>
    /\ components' = FormatA \o FormatB
    /\ Return
    /\ UNCHANGED <<grid, nrows, ncols, header, coords_dg,
                   previous_right_type, previous_right_party, nodes, blocks>>

\* lines 161-195 with the return of line 195
format_a_return ==
    /\ pc = "format_a"
    /\ FormatA # <<>>
    /\ components' = FormatA
    /\ Return
    /\ UNCHANGED <<grid, nrows, ncols, header, coords_dg,
                   previous_right_type, previous_right_party, nodes, blocks>>

\* lines 161-195 when no label row yields a component
format_a_miss ==
    /\ pc = "format_a"
    /\ FormatA = <<>>
    /\ pc' = "format_b"
    /\ UNCHANGED <<grid, nrows, ncols, todo, i, header, components, coords_dg,
                   previous_right_type, previous_right_party, nodes, blocks, error>>

\* lines 198-247
format_b_return ==
    /\ pc = "format_b"
    /\ components' = components \o FormatB
    /\ Return
    /\ UNCHANGED <<grid, nrows, ncols, header, coords_dg,
                   previous_right_type, previous_right_party, nodes, blocks>>

---------------------------------------------------------------------------
(* get_nodes: the anchors, then one anchor column at a time.               *)

\* lines 324-332
find_dg ==
    /\ pc = "find_dg"
    /\ (ncols = 0 \/ row_company_type < nrows)
    /\ coords_dg' = AnchorsFrom(0)
    /\ previous_right_type' = None
    /\ previous_right_party' = None
    /\ pc' = "node"
    /\ i' = 0
    /\ UNCHANGED <<grid, nrows, ncols, todo, header, components, nodes, blocks, error>>

\* line 326 on a grid without the company-type row
find_dg_raise ==
    /\ pc = "find_dg"
    /\ ncols > 0
    /\ row_company_type >= nrows
    /\ Raise("IndexError")
    /\ UNCHANGED <<grid, nrows, ncols, header, components, coords_dg,
                   previous_right_type, previous_right_party, nodes, blocks>>

\* lines 334-482, on a grid that has every row the body reads
node_step ==
    /\ pc = "node"
    /\ i < Len(coords_dg)
    /\ docs_end < nrows
    /\ LET col == coords_dg[i + 1]
       IN  /\ nodes' = Append(nodes, Node(col, previous_right_type, previous_right_party))
           /\ previous_right_type' = RightType(col)
           /\ previous_right_party' = RightParty(col)
    /\ i' = i + 1
    /\ UNCHANGED <<grid, nrows, ncols, todo, pc, header, components, coords_dg,
                   blocks, error>>

\* lines 334-430 on a shorter grid: the remarks row (line 357) and the
\* documents rows (line 424) are read in the anchor column whatever the cells
\* hold, so one of the df.iat reads is out of bounds
node_raise ==
    /\ pc = "node"
    /\ i < Len(coords_dg)
    /\ docs_end >= nrows
    /\ Raise("IndexError")
    /\ UNCHANGED <<grid, nrows, ncols, header, components, coords_dg,
                   previous_right_type, previous_right_party, nodes, blocks>>

\* line 484
get_nodes_return ==
    /\ pc = "node"
    /\ i >= Len(coords_dg)
    /\ Return
    /\ UNCHANGED <<grid, nrows, ncols, header, components, coords_dg,
                   previous_right_type, previous_right_party, nodes, blocks>>

---------------------------------------------------------------------------
(* get_detail_blocks: one title cell of the column-major scan at a time.   *)

\* lines 521-530: the title cells at scan position i or later
TitlesAhead == {p \in i..(nrows * ncols - 1) : IsTitleAt(p)}

NextTitle == CHOOSE p \in TitlesAhead : \A q \in TitlesAhead : p <= q

\* lines 532-593 for a title cell whose block is kept
detail_block ==
    /\ pc = "detail_scan"
    /\ TitlesAhead # {}
    /\ ~EmptyBlock(TitleAndDocuments(CellRow(NextTitle), CellCol(NextTitle)))
    /\ blocks' = Append(blocks, Block(CellRow(NextTitle), CellCol(NextTitle)))
    /\ i' = NextTitle + 1
    /\ UNCHANGED <<grid, nrows, ncols, todo, pc, header, components, coords_dg,
                   previous_right_type, previous_right_party, nodes, error>>

\* lines 532-582 for a title cell whose block is dropped (the continue)
detail_skip ==
    /\ pc = "detail_scan"
    /\ TitlesAhead # {}
    /\ EmptyBlock(TitleAndDocuments(CellRow(NextTitle), CellCol(NextTitle)))
    /\ i' = NextTitle + 1
    /\ UNCHANGED <<grid, nrows, ncols, todo, pc, header, components, coords_dg,
                   previous_right_type, previous_right_party, nodes, blocks, error>>

\* line 595
get_detail_blocks_return ==
    /\ pc = "detail_scan"
    /\ TitlesAhead = {}
    /\ Return
    /\ UNCHANGED <<grid, nrows, ncols, header, components, coords_dg,
                   previous_right_type, previous_right_party, nodes, blocks>>

---------------------------------------------------------------------------
(* The grids pd.read_excel(file_path, sheet_name=0, header=None) hands to  *)
(* get_header: every sheet of HRows rows drawn from these rows.            *)

HRows == 3

HeaderRowChoices ==
    {<<NaN, NaN, NaN>>,
     <<Str(VendorNumberLabel), Str(<<"V", "-", "1", "0", "0">>), NaN>>,
     <<Str(VendorNumberLabel), Str(<<"V", "-", "2", "0", "0">>), NaN>>,
     <<NaN, NaN, Str(VendorNumberLabel)>>,
     <<Str(ItemLabel), Str(<<"A", "-", "1">>), NaN>>,
     <<Str(ItemLabel), Str(<<"A", "-", "2">>), NaN>>,
     <<Str(ItemNumberLabel), IntV(7700), NaN>>,
     <<Str(ItemNumberLabel), IntV(8800), NaN>>,
     <<Str(ShipDateLabel), DateV(20240105), NaN>>,
     <<NaN, Str(ShipDateLabel), Str(<<"2", "0", "2", "4", "-", "0", "2", "-", "0", "1">>)>>,
     <<Str(POQuantityLabel), IntV(50000), Str(POQuantityLabel)>>,
     <<Str(VendorNumberLabel), Str(ItemLabel), Str(<<"A", "-", "3">>)>>}

InitHeader ==
    /\ nrows = HRows
    /\ ncols = Len(CHOOSE row \in HeaderRowChoices : TRUE)
    /\ grid \in [1..HRows -> HeaderRowChoices]
    /\ Called(<<"get_header">>)

NextHeader == get_header_row \/ get_header_raise \/ get_header_return

SpecHeader == InitHeader /\ [][NextHeader]_vars

---------------------------------------------------------------------------
(* The grids handed to get_components: every sheet of CRows rows drawn     *)
(* from ComponentRowChoices, and the two layouts with the percent cell of  *)
(* the first data row drawn from PercentCells.                             *)

CRows == 4

PercentCells ==
    {NaN, FloatV(82), IntV(100), IntV(0), IntV(4500), IntV(15000), FloatV(150),
     FloatV(-500), Str(<<"1", "5", "0", "%">>), Str(<<" ", "4", "5", " ", "%">>), Str(<<"0", ".", "5">>), Str(<<>>),
     Str(<<"a", "b", "c">>), Str(<<"n", "a", "n">>), DateV(20240105)}

BlankComponentRow == <<NaN, NaN, NaN, NaN>>

LabelRowA == <<Str(ComponentBreakdown), NaN, NaN, NaN>>

HeaderRowB ==
    <<Str(<<"I", "t", "e", "m", " ", "M", "a", "j", "o", "r", " ", "F", "a", "b", "r", "i", "c", " ", "B", "r", "e", "a", "k", "d", "o", "w", "n">>), Str(<<"%">>), Str(<<"O", "r", "i", "g", "i", "n", " ", "C", "o", "u", "n", "t", "r", "i", "e", "s">>),
      Str(<<"R", "e", "m", "a", "r", "k", "s", ":">>)>>

CottonRow(pv) == <<Str(<<"C", "o", "t", "t", "o", "n">>), pv, Str(<<"C", "h", "i", "n", "a">>), NaN>>

PolyesterRow == <<Str(<<" ", "P", "o", "l", "y", "e", "s", "t", "e", "r", " ">>), Str(<<"2", "0", "%">>), NaN, Str(<<"d", "y", "e", "d">>)>>

ComponentRowChoices ==
    {BlankComponentRow,
     LabelRowA,
     <<NaN, NaN, Str(ComponentBreakdown), NaN>>,
     HeaderRowB,
     CottonRow(FloatV(82)),
     PolyesterRow,
     <<IntV(500), FloatV(50), Str(<<" ">>), DateV(20240105)>>}

PercentGrid(first, pv) ==
    [d \in 1..CRows |->
        IF d = 1 THEN first
        ELSE IF d = 2 THEN CottonRow(pv)
        ELSE IF d = 3 THEN PolyesterRow
        ELSE BlankComponentRow]

InitComponents ==
    /\ nrows = CRows
    /\ ncols = Len(BlankComponentRow)
    /\ \/ grid \in [1..CRows -> ComponentRowChoices]
       \/ \E first \in {LabelRowA, HeaderRowB}, pv \in PercentCells :
              grid = PercentGrid(first, pv)
    /\ Called(<<"get_components">>)

NextComponents == format_a_return \/ format_a_miss \/ format_b_return

SpecComponents == InitComponents /\ [][NextComponents]_vars

---------------------------------------------------------------------------
(* The grids handed to get_nodes: sheets of docs_end + 1 rows and NCols     *)
(* columns.  LayoutGrid varies the boxes of the company rows in every       *)
(* column; DateGrid and QuantityGrid vary the remarks, date, quantity and   *)
(* documents cells around the first anchor of one fixed layout; EdgeGrid    *)
(* puts anchors in the first and the last column; ShortGrid is a sheet that *)
(* ends above the documents rows.                                           *)

NCols == 5

\* a sheet of docs_end + 1 rows whose cell (r, c) is cell(r, c)
Sheet(cell(_, _)) ==
    [r \in 1..(docs_end + 1) |-> [c \in 1..NCols |-> cell(r - 1, c - 1)]]

BoxKinds == {"blank", "full", "name", "anchor"}

\* the cell (r, c) of a sheet whose column c holds a box of kind kinds[c]
LayoutCell(kinds, r, c) ==
    LET no == <<DigitSeq[c + 1]>>
    IN  IF r = row_material THEN Str(<<"W", "o", "o", "l">>)
        ELSE IF kinds[c] = "blank" THEN NaN
        ELSE IF kinds[c] = "anchor"
             THEN IF r = row_company_type THEN Str(DocumentGroup \o <<" ">> \o no) ELSE NaN
        ELSE IF r = row_company_type THEN Str(<<"T", "y", "p", "e", " ">> \o no)
        ELSE IF r = row_company_name THEN Str(<<"P", "a", "r", "t", "y", " ">> \o no)
        ELSE IF r = row_location /\ kinds[c] = "full" THEN Str(<<"C", "i", "t", "y", " ">> \o no)
        ELSE NaN

LayoutGrid(kinds) == Sheet(LAMBDA r, c : LayoutCell(kinds, r, c))

\* the fixed layout: Farm | Document Group 1 | Mill | Document Group 2 | Port
BaseCell(r, c) ==
    CASE c = 0 /\ r = row_company_type -> Str(<<" ", "S", "u", "p", "p", "l", "i", "e", "r", " ">>)
      [] c = 0 /\ r = row_company_name -> Str(<<"F", "a", "r", "m">>)
      [] c = 0 /\ r = row_location -> Str(<<"F", "a", "r", "m", " ", "R", "o", "a", "d", ",", " ", "O", "t", "a", "g", "o">>)
      [] c = 1 /\ r = row_company_type -> Str(<<"D", "o", "c", "u", "m", "e", "n", "t", " ", "G", "r", "o", "u", "p", " ", "1">>)
      [] c = 1 /\ r = row_material -> Str(<<" ", "W", "o", "o", "l", " ">>)
      [] c = 2 /\ r = row_company_type -> Str(<<"M", "a", "n", "u", "f", "a", "c", "t", "u", "r", "e", "r">>)
      [] c = 2 /\ r = row_company_name -> Str(<<"M", "i", "l", "l">>)
      [] c = 2 /\ r = row_location -> Str(<<"D", "a", "q", "i", "n", "g">>)
      [] c = 3 /\ r = row_company_type -> Str(<<"D", "o", "c", "u", "m", "e", "n", "t", " ", "G", "r", "o", "u", "p", " ", "2">>)
      [] c = 4 /\ r = row_company_type -> IntV(300)
      [] c = 4 /\ r = row_location -> Str(<<"P", "o", "r", "t">>)
      [] OTHER -> NaN

\* the fixed layout with the cells of DOMAIN ov replaced
FieldGrid(ov) ==
    Sheet(LAMBDA r, c : IF <<r, c>> \in DOMAIN ov THEN ov[<<r, c>>] ELSE BaseCell(r, c))

\* a date-like text of MaxDateLen + 1 characters
LongDateText == <<"1", "/", "2", "/", "2", "0", "2", "4", " ">> \o [d \in 1..(MaxDateLen - 8) |-> "x"]

\* a date-like text of exactly MaxDateLen characters
EdgeDateText == <<"1", "/", "2", "/", "2", "0", "2", "4", " ">> \o [d \in 1..(MaxDateLen - 9) |-> "y"]

DateCells ==
    {DateV(20240105), Str(<<" ", "0", "3", "-", "0", "4", "-", "2", "0", "2", "4", " ">>), Str(LongDateText), Str(EdgeDateText),
     Str(<<"G", "o", "o", "d", "s", " ", "a", "r", "e", " ", "s", "h", "i", "p", "p", "e", "d", " ", "1", "/", "2">>), Str(<<"I", "n", "v", "o", "i", "c", "e">>)}

\* the cells of the date window of the anchor column 1: three rows from
\* row_date down, columns 0 to 2
WindowCells == [d \in 1..9 |-> <<row_date + ((d - 1) \div 3), (d - 1) % 3>>]

RemarksCells == {NaN, Str(<<" ", "C", "h", "e", "c", "k", "e", "d", " ">>)}

\* the fixed layout with a remarks cell and two cells of the date window
DateGrid(rem, p1, v1, p2, v2) ==
    FieldGrid((<<row_remarks, 1>> :> rem) @@ (WindowCells[p1] :> v1)
                @@ (WindowCells[p2] :> v2))

QuantityCells ==
    {NaN, IntV(9200), FloatV(9200), FloatV(9250), Str(<<"9", "2", " ", "M", "T">>), Str(<<" ", "1", "2", " ", "b", "a", "l", "e", "s", " ">>),
     Str(<<"M", "a", "n", "u", "f", "a", "c", "t", "u", "r", "e", "r", " ", "P", "r", "o", "d", "u", "c", "t", "i", "o", "n", " ", "R", "e", "c", "o", "r", "d", "s">>), Str(<<" ">>)}

FirstDocCells ==
    {NaN, Str(<<"9", "2", " ", "M", "e", "t", "r", "i", "c", " ", "T", "o", "n", "s", " ", "W", "o", "o", "l">>), Str(<<"C", "o", "n", "t", "r", "a", "c", "t", "\n", "I", "n", "v", "o", "i", "c", "e">>),
     Str(<<" ", "\n", " ", "P", "a", "c", "k", "i", "n", "g", " ", "L", "i", "s", "t", " ", "\n", "\n">>), Str(<<"5", " ", "b", "a", "l", "e", "s", "\n", "I", "n", "v", "o", "i", "c", "e">>), IntV(700),
     Str(<<"W", "o", "o", "l", " ", "B", "a", "l", "e", "s", "\n", "I", "n", "v", "o", "i", "c", "e">>)}

SecondDocCells == {NaN, Str(<<"I", "n", "v", "o", "i", "c", "e">>), Str(<<"B", "i", "l", "l", " ", "o", "f", " ", "L", "a", "d", "i", "n", "g", " ", "7">>)}

SideRemarksCells == {NaN, FloatV(9200)}

\* the fixed layout with the quantity cell, two documents cells and the
\* remarks cell right of the anchor
QuantityGrid(q, d1, d2, rem) ==
    FieldGrid((<<row_qty, 1>> :> q) @@ (<<docs_start, 1>> :> d1)
                @@ (<<docs_start + 1, 1>> :> d2) @@ (<<row_remarks, 2>> :> rem))

\* the fixed layout with an anchor in the first and in the last column, a
\* native date in the last row of their windows and the cell v beside them in
\* row r
EdgeGrid(r, v) ==
    FieldGrid((<<row_company_type, 0>> :> Str(DocumentGroup \o <<" ", "0">>))
                @@ (<<row_company_type, NCols - 1>> :> Str(DocumentGroup \o <<" ", "9">>))
                @@ (<<row_date + 2, 0>> :> DateV(20240105))
                @@ (<<row_date + 2, NCols - 1>> :> DateV(20240607))
                @@ (<<r, 1>> :> v) @@ (<<r, NCols - 2>> :> v))

\* the fixed layout cut after n rows
ShortGrid(n) == SubSeq(FieldGrid(<<>>), 1, n)

InitNodes ==
    /\ \/ \E kinds \in [0..(NCols - 1) -> BoxKinds] : grid = LayoutGrid(kinds)
       \/ \E rem \in RemarksCells, p1 \in DOMAIN WindowCells, v1 \in DateCells, v2 \in DateCells :
              \E p2 \in p1..Len(WindowCells) : grid = DateGrid(rem, p1, v1, p2, v2)
       \/ \E q \in QuantityCells, d1 \in FirstDocCells, d2 \in SecondDocCells,
              rem \in SideRemarksCells : grid = QuantityGrid(q, d1, d2, rem)
       \/ \E r \in row_date..(row_date + 2), v \in DateCells : grid = EdgeGrid(r, v)
       \/ \E n \in {row_material, row_company_name, docs_start} : grid = ShortGrid(n)
    /\ nrows = Len(grid)
    /\ ncols = NCols
    /\ Called(<<"get_nodes">>)

NextNodes == find_dg \/ find_dg_raise \/ node_step \/ node_raise \/ get_nodes_return

SpecNodes == InitNodes /\ [][NextNodes]_vars

---------------------------------------------------------------------------
(* The grids handed to get_detail_blocks: sheets of DRows rows and two      *)
(* columns.  Column 0 holds a title in row 0 and every choice of LineCells  *)
(* from row 5 down; column 1 is one of SideColumns.                         *)

DRows == 9

LineCells ==
    {NaN, Str(<<" ", "P", "r", "o", "d", "u", "c", "t", "i", "o", "n", " ", "R", "e", "c", "o", "r", "d", "s", " ">>), Str(<<"S", "h", "i", "p", "p", "i", "n", "g", " ", "R", "E", "C", "O", "R", "D">>), Str(<<"I", "n", "v", "o", "i", "c", "e">>),
     IntV(700)}

\* the cell in row r of column 0, lines[r] being the cell of the scan rows
TitledCell(lines, r) ==
    CASE r = 0 -> Str(<<" ", "(", "M", "a", "n", "u", "f", "a", "c", "t", "u", "r", "e", "r", ")", " ">>)
      [] r = 1 -> Str(<<"M", "i", "l", "l">>)
      [] r = 2 -> Str(<<"D", "a", "q", "i", "n", "g">>)
      [] r = 3 -> NaN
      [] r = 4 -> Str(<<"2", "0", "2", "4", "-", "0", "1", "-", "0", "5">>)
      [] OTHER -> lines[r]

\* the cell in row r of column 1
SideCell(kind, r) ==
    CASE kind = "low" /\ r = 1 -> Str(<<"(", "(", "E", "x", "p", "o", "r", "t", "e", "r", ")", ")">>)
      [] kind = "low" /\ r = 2 -> Str(<<"P", "o", "r", "t">>)
      [] kind = "low" /\ r = 5 -> DateV(20240105)
      [] kind = "low" /\ r = 7 -> Str(<<"I", "n", "v", "o", "i", "c", "e", " ", "B">>)
      [] kind = "low" /\ r = 8 -> Str(<<"C", "u", "s", "t", "o", "m", "s", " ", "r", "e", "c", "o", "r", "d">>)
      [] kind = "late" /\ r = DRows - 1 -> Str(<<"(", "L", "a", "t", "e", ")">>)
      [] kind = "late" /\ r = 1 -> Str(<<"(", "x", ")">>)
      [] kind = "late" /\ r = 6 -> IntV(700)
      [] OTHER -> NaN

SideColumns == {"none", "low", "late"}

DetailGrid(lines, kind) ==
    [r \in 1..DRows |-> <<TitledCell(lines, r - 1), SideCell(kind, r - 1)>>]

InitDetail ==
    /\ \E lines \in [5..(DRows - 1) -> LineCells], kind \in SideColumns :
           grid = DetailGrid(lines, kind)
    /\ nrows = DRows
    /\ ncols = Len(grid[1])
    /\ Called(<<"get_detail_blocks">>)

NextDetail == detail_block \/ detail_skip \/ get_detail_blocks_return

SpecDetail == InitDetail /\ [][NextDetail]_vars

---------------------------------------------------------------------------
(* get_nodes and then get_detail_blocks, as lines 605-606 call them, on     *)
(* every layout of anchors and full boxes with title cells below them: two  *)
(* in column 0, one between their rows in column 1, and one in the last row *)
(* that has no line below it.                                               *)

TitleCells ==
    (<<docs_start, 0>> :> Str(<<"(", "M", "a", "n", "u", "f", "a", "c", "t", "u", "r", "e", "r", ")">>))
    @@ (<<docs_start + 1, 1>> :> Str(<<" ", "(", "E", "x", "p", "o", "r", "t", "e", "r", ")">>))
    @@ (<<docs_start + 2, 0>> :> Str(<<"(", "A", "g", "e", "n", "t", ")">>))
    @@ (<<docs_start + 6, 1>> :> Str(<<"C", "u", "s", "t", "o", "m", "s", " ", "r", "e", "c", "o", "r", "d">>))
    @@ (<<docs_start + 7, 0>> :> Str(<<"I", "n", "v", "o", "i", "c", "e">>))
    @@ (<<docs_end, 1>> :> Str(<<"(", "L", "a", "t", "e", ")">>))

OrderGrid(kinds) ==
    Sheet(LAMBDA r, c : IF <<r, c>> \in DOMAIN TitleCells THEN TitleCells[<<r, c>>]
                        ELSE LayoutCell(kinds, r, c))

InitOrder ==
    /\ \/ \E kinds \in [0..(NCols - 1) -> {"full", "anchor"}] : grid = OrderGrid(kinds)
       \/ \E n \in {row_material, row_company_name, docs_start} : grid = ShortGrid(n)
    /\ nrows = Len(grid)
    /\ ncols = NCols
    /\ Called(<<"get_nodes", "get_detail_blocks">>)

NextOrder == NextNodes \/ NextDetail

SpecOrder == InitOrder /\ [][NextOrder]_vars

---------------------------------------------------------------------------
(* parse_supply_chain_excel on one sample sheet cut to every number of      *)
(* rows and of columns.                                                     *)

SampleCells ==
    (<<0, 0>> :> Str(VendorNumberLabel)) @@ (<<0, 1>> :> Str(<<"V", "-", "1", "0", "0">>))
    @@ (<<1, 0>> :> Str(ItemLabel)) @@ (<<1, 1>> :> Str(<<"A", "-", "1">>))
    @@ (<<2, 3>> :> Str(ShipDateLabel)) @@ (<<2, 4>> :> DateV(20240105))
    @@ (<<3, 0>> :> Str(POQuantityLabel)) @@ (<<3, 1>> :> IntV(50000))
    @@ (<<4, 1>> :> Str(ItemNumberLabel)) @@ (<<4, 2>> :> IntV(7700))
    @@ (<<5, 0>> :> Str(ComponentBreakdown))
    @@ (<<6, 0>> :> Str(<<"C", "o", "t", "t", "o", "n">>)) @@ (<<6, 1>> :> FloatV(82)) @@ (<<6, 2>> :> Str(<<"C", "h", "i", "n", "a">>))
    @@ (<<7, 0>> :> Str(<<"P", "o", "l", "y", "e", "s", "t", "e", "r">>)) @@ (<<7, 1>> :> Str(<<"2", "0", "%">>))
    @@ (<<row_remarks, 1>> :> Str(<<"C", "h", "e", "c", "k", "e", "d">>))
    @@ (<<row_date, 1>> :> DateV(20240105))
    @@ (<<row_qty, 1>> :> FloatV(9200))
    @@ (<<docs_start, 1>> :> Str(<<"C", "o", "n", "t", "r", "a", "c", "t", "\n", "I", "n", "v", "o", "i", "c", "e">>))
    @@ (<<19, 4>> :> Str(<<"(", "M", "a", "n", "u", "f", "a", "c", "t", "u", "r", "e", "r", ")">>)) @@ (<<20, 4>> :> Str(<<"M", "i", "l", "l">>))
    @@ (<<24, 4>> :> Str(<<"P", "r", "o", "d", "u", "c", "t", "i", "o", "n", " ", "R", "e", "c", "o", "r", "d", "s">>)) @@ (<<25, 4>> :> Str(<<"I", "n", "v", "o", "i", "c", "e">>))
    @@ (<<26, 0>> :> Str(<<"(", "L", "a", "t", "e", ")">>))

SampleSheet == FieldGrid(SampleCells)

\* the first n rows and m columns of the sheet g
Cut(g, n, m) == [r \in 1..n |-> SubSeq(g[r], 1, m)]

Init ==
    /\ \E n \in 0..Len(SampleSheet), m \in 0..NCols :
           /\ grid = Cut(SampleSheet, n, m)
           /\ nrows = n
           /\ ncols = m
    /\ Called(<<"get_header", "get_components", "get_nodes", "get_detail_blocks">>)

Next == NextHeader \/ NextComponents \/ NextNodes \/ NextDetail

Spec == Init /\ [][Next]_vars

---------------------------------------------------------------------------
(* Properties of get_nodes, checked under SpecNodes.                       *)

\* the anchor column of the k-th node
NodeCol(k) == coords_dg[k]

\* C1: every node after the first has the left_party and the left_type of
\* the right box of the node before it, whatever the grid holds.
C1_LeftIsPreviousRight ==
    \A k \in 2..Len(nodes) :
        /\ nodes[k].left_party = nodes[k - 1].right_party
        /\ nodes[k].left_type = nodes[k - 1].right_type

\* C2: the quantity and the date of every node are texts, never null and
\* never empty: an extracted value or the sentinel "none".
C2_QuantityAndDateNeverEmpty ==
    \A k \in 1..Len(nodes) :
        /\ IsStr(nodes[k].quantity)
        /\ nodes[k].quantity.s # <<>>
        /\ IsStr(nodes[k].date)
        /\ nodes[k].date.s # <<>>

\* C2 witness: a node whose date was reset to "none" by the sentence rule
\* and whose quantity was promoted from the first document line.
C2_Witness ==
    \E k \in 1..Len(nodes) :
        /\ FoundDate(NodeCol(k)) # NoneText
        /\ nodes[k].date.s = NoneText
        /\ Quantity(NodeCol(k)).s = NoneText
        /\ DocsFrom(docs_start, NodeCol(k)) # <<>>
        /\ nodes[k].quantity.s = Head(DocsFrom(docs_start, NodeCol(k)))

\* the date text the window search resolved for the k-th node is a sentence:
\* longer than 40 characters, or with the phrase "goods are shipped"
ResolvedSentence(k) ==
    \/ Len(FoundDate(NodeCol(k))) > 40
    \/ Contains(GoodsAreShipped, Lower(FoundDate(NodeCol(k))))

\* C9: the date of a node is never longer than 40 characters and never
\* holds "goods are shipped"; a resolved date text that is such a sentence
\* is reset to "none", becomes the remarks when the remarks search found
\* nothing, and never replaces remarks that were found.
C9_SentenceDateMovesToRemarks ==
    \A k \in 1..Len(nodes) :
        LET found == nearest_value(row_remarks, NodeCol(k), 1)
        IN  /\ Len(nodes[k].date.s) <= 40
            /\ ~Contains(GoodsAreShipped, Lower(nodes[k].date.s))
            /\ ResolvedSentence(k) => nodes[k].date.s = NoneText
            /\ (ResolvedSentence(k) /\ found = None) =>
                   nodes[k].remarks = Str(FoundDate(NodeCol(k)))
            /\ found # None => nodes[k].remarks = found
            /\ (~ResolvedSentence(k)) =>
                   (nodes[k].remarks = found /\ nodes[k].date.s = FoundDate(NodeCol(k)))

\* C9 witness: one node took its remarks from a sentence in the date window
\* and another kept the remarks it had while its date was reset.
C9_Witness ==
    /\ \E k \in 1..Len(nodes) :
           /\ ResolvedSentence(k)
           /\ nearest_value(row_remarks, NodeCol(k), 1) = None
           /\ nodes[k].remarks = Str(FoundDate(NodeCol(k)))
           /\ nodes[k].date.s = NoneText
    /\ \E k \in 1..Len(nodes) :
           /\ ResolvedSentence(k)
           /\ nearest_value(row_remarks, NodeCol(k), 1) # None
           /\ nodes[k].remarks # Str(FoundDate(NodeCol(k)))
           /\ nodes[k].date.s = NoneText

---------------------------------------------------------------------------
(* Properties of get_detail_blocks, checked under SpecDetail.              *)

\* the scan positions handled so far: all of them once the call returned
Scanned == IF pc = "detail_scan" THEN 0..(i - 1) ELSE 0..(nrows * ncols - 1)

\* L: the lines the scan of the title cell at position p collects
ScanLines(p) == CollectLines(SkipBlanks(CellRow(p) + 5, CellCol(p)), CellCol(p))

\* the title cells handled so far whose scan collected at least one line
KeptTitles == {p \in Scanned : IsTitleAt(p) /\ ScanLines(p) # <<>>}

RECURSIVE Ascending(_)
Ascending(S) ==
    IF S = {} THEN <<>>
    ELSE LET least == CHOOSE p \in S : \A q \in S : p <= q
         IN  <<least>> \o Ascending(S \ {least})

\* C3: every block has a title or a document; a title cell whose scan
\* collects no line gives no block and every other title cell gives one.
C3_BlockPerTitleWithLines ==
    /\ \A k \in 1..Len(blocks) :
           blocks[k].doc_title # None \/ blocks[k].documents # <<>>
    /\ Len(blocks) = Cardinality(KeptTitles)

\* C3 witness: the scan has dropped a title cell without lines and kept one
\* with lines.
C3_Witness ==
    /\ pc = "done"
    /\ blocks # <<>>
    /\ \E p \in Scanned : IsTitleAt(p) /\ ScanLines(p) = <<>>

\* the positions of the lines of L that contain "record", whatever the case
RecordLines(L) == {d \in 1..Len(L) : Contains(RecordWord, Lower(L[d]))}

FirstRecordLine(L) == CHOOSE d \in RecordLines(L) : \A e \in RecordLines(L) : d <= e

\* L without its d-th line
Without(L, d) == SubSeq(L, 1, d - 1) \o SubSeq(L, d + 1, Len(L))

\* C10: the doc_title of a block is the first line of L that contains
\* "record", or null when none does; documents is L without that line, in
\* order; a block without title has no "record" document and the fallback
\* on the first document changes nothing.
C10_TitleIsFirstRecordLine ==
    /\ Len(blocks) = Len(Ascending(KeptTitles))
    /\ \A k \in 1..Len(blocks) :
           LET L == ScanLines(Ascending(KeptTitles)[k])
           IN  /\ RecordLines(L) = {} =>
                      (blocks[k].doc_title = None /\ blocks[k].documents = L)
               /\ RecordLines(L) # {} =>
                      /\ blocks[k].doc_title = Str(L[FirstRecordLine(L)])
                      /\ blocks[k].documents = Without(L, FirstRecordLine(L))
               /\ blocks[k].doc_title = None => RecordLines(blocks[k].documents) = {}
               /\ Fallback(Classify(L, None, <<>>)) = Classify(L, None, <<>>)

\* C10 witness: a block whose title is not the first line of L and whose
\* documents still hold a later "record" line.
C10_Witness ==
    \E k \in 1..Len(blocks) :
        /\ blocks[k].doc_title # None
        /\ Len(blocks[k].documents) >= 2
        /\ ~Contains(RecordWord, Lower(Head(blocks[k].documents)))
        /\ RecordLines(blocks[k].documents) # {}

---------------------------------------------------------------------------
(* Properties of get_components, checked under SpecComponents.             *)

\* a name cell that ends the vertical list: missing, or a text of blanks
BlankCell(v) == v = NaN \/ v = None \/ (IsStr(v) /\ \A d \in 1..Len(v.s) : v.s[d] \in Whitespace)

\* the rows holding the label "Component Breakdown" as a cell
LabelRows == {r \in 0..(nrows - 1) : \E c \in 0..(ncols - 1) : iat(r, c) = Str(ComponentBreakdown)}

\* the leftmost column of row r holding the label
LabelCol(r) ==
    CHOOSE c \in 0..(ncols - 1) :
        /\ iat(r, c) = Str(ComponentBreakdown)
        /\ \A e \in 0..(c - 1) : iat(r, e) # Str(ComponentBreakdown)

\* the length of the maximal run of non-blank cells of column c from row
\* r + 1 down
RunLength(r, c) ==
    CHOOSE m \in 0..nrows :
        /\ r + m < nrows
        /\ \A k \in (r + 1)..(r + m) : ~BlankCell(iat(k, c))
        /\ (r + m + 1 < nrows => BlankCell(iat(r + m + 1, c)))

\* the label rows with at least one name below the label
YieldingRows == {r \in LabelRows : RunLength(r, LabelCol(r)) > 0}

\* the label row Format A reads: the topmost one with a name below
UsedLabelRow == CHOOSE r \in YieldingRows : \A q \in YieldingRows : r <= q

\* the rows holding a text with "Major Fabric Breakdown", and the topmost
FabricRows == {r \in 0..(nrows - 1) : \E c \in 0..(ncols - 1) : IsFabricHeader(iat(r, c))}

UsedFabricRow == CHOOSE r \in FabricRows : \A q \in FabricRows : r <= q

\* the cell the percent of the d-th returned component was read from
PercentSource(d) ==
    IF YieldingRows # {}
    THEN CellOrNone(UsedLabelRow + d, LabelCol(UsedLabelRow) + 1)
    ELSE CellIfCol(UsedFabricRow + d,
                   CompanionCol(UsedFabricRow, HeaderCol(UsedFabricRow), "percent"))

\* the number a percent text spells once "%" and blanks are removed
SpellsPercent(v, p) ==
    Strip(RemoveChar(Strip(v.s), "%")) \in {IntStr(p.n), FloatStr(p.n)}

C7_FormatAFirstNoMerge ==
    pc = "done" =>
        /\ YieldingRows # {} => components = RunA(UsedLabelRow + 1, LabelCol(UsedLabelRow))
        /\ YieldingRows = {} => components = FormatB
        /\ components \in {FormatA, FormatB}

\* C7 witness: both formats had components to give and differ.
C7_Witness ==
    /\ pc = "done"
    /\ FormatA # <<>>
    /\ FormatB # <<>>
    /\ \A d \in 1..Len(FormatB) : \A e \in 1..Len(components) : FormatB[d] # components[e]
    /\ components = FormatA

\* C8: with the label at (r, c), r the row Format A reads, the list holds
\* one component per row of the maximal run of non-blank name cells of
\* column c from row r + 1 down, in row order, and none from below the
\* first blank name cell.
C8_RunBelowLabel ==
    (pc = "done" /\ YieldingRows # {}) =>
        LET r == UsedLabelRow
            c == LabelCol(UsedLabelRow)
        IN  /\ Len(components) = RunLength(r, c)
            /\ \A d \in 1..Len(components) :
                   /\ components[d].name = Str(Strip(PyStr(iat(r + d, c))))
                   /\ components[d] = ComponentA(r + d, c)

\* C8 witness: a name cell below the first blank was left out.
C8_Witness ==
    /\ pc = "done"
    /\ YieldingRows # {}
    /\ Len(components) >= 1
    /\ \E k \in (UsedLabelRow + Len(components) + 2)..(nrows - 1) :
           ~BlankCell(iat(k, LabelCol(UsedLabelRow)))

---------------------------------------------------------------------------
(* Properties of get_header, checked under SpecHeader.                     *)

\* the field of the dict h that a label fills
Field(h, label) ==
    CASE label = VendorNumberLabel -> h.vendor_number
      [] label = ItemLabel -> h.item
      [] label = ItemNumberLabel -> h.item_number
      [] label = ShipDateLabel -> h.ship_date
      [] OTHER -> h.po_quantity

\* the rows holding the label as a cell, and the topmost
RowsWith(label) == {r \in 0..(nrows - 1) : InRow(label, iloc(r))}

FirstRowWith(label) == CHOOSE r \in RowsWith(label) : \A q \in RowsWith(label) : r <= q

\* the value right of the label in row r, a native date as YYYY-MM-DD
ValueRightOf(label, r) ==
    LET v == RightOf(label, iloc(r))
    IN  IF IsDate(v) THEN Str(Strftime(v)) ELSE v

\* C6: a label found in several rows gives its field the value right of its
\* first occurrence from the top; a label found nowhere leaves its field out.
C6_FirstOccurrenceWins ==
    (pc = "done" /\ error = "none") =>
        \A label \in HeaderLabels :
            IF RowsWith(label) = {}
            THEN Field(header, label) = Absent
            ELSE Field(header, label) = ValueRightOf(label, FirstRowWith(label))

---------------------------------------------------------------------------
(* Properties of parse_supply_chain_excel, checked under Spec.             *)

\* C5: no extractor raises, on a grid of any number of rows and columns.
C5_NoExtractorRaises == error = "none"


---------------------------------------------------------------------------
(* The order of the two lists, checked under SpecOrder.                    *)

\* the title cells <<row, column>> whose scan collects at least one line
EmittedTitles ==
    {rc \in (0..(nrows - 1)) \X (0..(ncols - 1)) :
        /\ IsTitle(iat(rc[1], rc[2]))
        /\ CollectLines(SkipBlanks(rc[1] + 5, rc[2]), rc[2]) # <<>>}

\* the cell a is at the left of b, or above it in the same column
ColumnMajorBefore(a, b) == a[2] < b[2] \/ (a[2] = b[2] /\ a[1] < b[1])

RECURSIVE InColumnMajor(_)
InColumnMajor(S) ==
    IF S = {} THEN <<>>
    ELSE LET first == CHOOSE a \in S : \A b \in S \ {a} : ColumnMajorBefore(a, b)
         IN  <<first>> \o InColumnMajor(S \ {first})

\* the columns whose company-type cell starts with "Document Group"
AnchorCols ==
    IF row_company_type < nrows THEN {c \in 0..(ncols - 1) : IsAnchor(c)} ELSE {}

\* C11: the blocks are those of the title cells in column-major order (left
\* column first, upper row first within a column) and the nodes are those of
\* the "Document Group" cells in ascending column order, one node per cell.
C11_ListsInColumnOrder ==
    /\ Len(blocks) <= Cardinality(EmittedTitles)
    /\ \A k \in 1..Len(blocks) :
           LET rc == InColumnMajor(EmittedTitles)[k]
           IN  blocks[k] = Block(rc[1], rc[2])
    /\ Len(nodes) <= Cardinality(AnchorCols)
    /\ \A k \in 1..Len(nodes) :
           nodes[k].group = iat(row_company_type, Ascending(AnchorCols)[k])
    /\ (pc = "done" /\ error = "none") =>
           /\ Len(blocks) = Cardinality(EmittedTitles)
           /\ Len(nodes) = Cardinality(AnchorCols)

\* C11 witness: both lists are returned, two nodes or more and three blocks
\* of which the second has its title cell below that of the third.
C11_Witness ==
    /\ pc = "done"
    /\ Len(nodes) >= 2
    /\ Len(blocks) = 3
    /\ InColumnMajor(EmittedTitles)[2][1] > InColumnMajor(EmittedTitles)[3][1]

---------------------------------------------------------------------------
(* Quantity promotion in get_nodes, checked under SpecNodes.               *)

\* the line holds a unit word or a digit, whatever the case
QuantityLike(line) ==
    (\E d \in 1..Len(line) : line[d] \in Digits)
    \/ (\E u \in UnitWords : Contains(u, Lower(line)))

\* the first collected line of the anchor column col is promoted
PromotionCase(col) ==
    /\ Quantity(col).s = NoneText
    /\ DocsFrom(docs_start, col) # <<>>
    /\ QuantityLike(Head(DocsFrom(docs_start, col)))

\* C12: the first document line becomes the quantity exactly when the
\* quantity cell gave "none" and that line is quantity-like, and documents
\* are then the other lines; otherwise quantity is the value of the cell and
\* documents are all the collected lines in order.  An empty quantity cell
\* without such a line gives "none", a float 92.0 gives "92".
C12_PromotionOnlyFromNone ==
    \A k \in 1..Len(nodes) :
        LET col == NodeCol(k)
            L   == DocsFrom(docs_start, col)
        IN  /\ IF PromotionCase(col)
               THEN /\ nodes[k].quantity = Str(Head(L))
                    /\ nodes[k].documents = Tail(L)
               ELSE /\ nodes[k].quantity = Quantity(col)
                    /\ nodes[k].documents = L
            /\ (IsNa(iat(row_qty, col)) /\ ~PromotionCase(col)) =>
                   nodes[k].quantity = Str(NoneText)
            /\ iat(row_qty, col) = FloatV(9200) =>
                   /\ nodes[k].quantity = Str(<<"9", "2">>)
                   /\ nodes[k].documents = L

\* C12 witness: a node whose quantity is a first line with a unit word and no
\* digit, the second line of the same cell staying first in documents.
C12_Witness ==
    \E k \in 1..Len(nodes) :
        /\ PromotionCase(NodeCol(k))
        /\ ~HasDigit(nodes[k].quantity.s)
        /\ nodes[k].documents # <<>>
        /\ Len(DocParts(iat(docs_start, NodeCol(k)))) = 2
        /\ Head(nodes[k].documents) = DocParts(iat(docs_start, NodeCol(k)))[2]

---------------------------------------------------------------------------
(* The date search of get_nodes, checked under SpecNodes.                  *)

\* the cell holds a native date, or a text with a digit and a "/" or a "-"
DateLike(v) ==
    \/ IsDate(v)
    \/ /\ IsStr(v)
       /\ \E d \in 1..Len(v.s) : v.s[d] \in Digits
       /\ \E d \in 1..Len(v.s) : v.s[d] \in {"/", "-"}

\* the cells <<row, column>> of the window of the anchor column col that
\* match: three rows from the date row, the anchor column and its neighbours
WindowMatches(col) ==
    {rc \in (row_date..(row_date + 2)) \X {col, col - 1, col + 1} :
        /\ rc[1] < nrows
        /\ 0 <= rc[2] /\ rc[2] < ncols
        /\ DateLike(iat(rc[1], rc[2]))}

\* the place of a column in the search of a row: anchor, anchor-1, anchor+1
ColumnRank(c, col) == IF c = col THEN 0 ELSE IF c = col - 1 THEN 1 ELSE 2

\* the match a is searched before the match b
SearchedBefore(a, b, col) ==
    a[1] < b[1] \/ (a[1] = b[1] /\ ColumnRank(a[2], col) < ColumnRank(b[2], col))

FirstMatch(col) ==
    CHOOSE a \in WindowMatches(col) :
        \A b \in WindowMatches(col) \ {a} : SearchedBefore(a, b, col)

\* the date text of a matching cell
MatchText(rc) ==
    IF IsDate(iat(rc[1], rc[2])) THEN Strftime(iat(rc[1], rc[2]))
    ELSE Strip(iat(rc[1], rc[2]).s)

\* the text is reset by the sentence rule of lines 415 and 444
ResetAsSentence(text) ==
    Len(text) > MaxDateLen \/ Contains(GoodsAreShipped, Lower(text))

\* C13: the date of a node is the text of the first matching cell of its
\* window, rows from the date row down and in each row the anchor column,
\* then the one at its left, then the one at its right; no later match is
\* ever used, also when the sentence rule resets the text of the first one to
\* "none".  Without a match the date is "none".
C13_DateFromFirstMatch ==
    \A k \in 1..Len(nodes) :
        LET col == NodeCol(k)
        IN  IF WindowMatches(col) = {} THEN nodes[k].date = Str(NoneText)
            ELSE IF ResetAsSentence(MatchText(FirstMatch(col)))
                 THEN nodes[k].date = Str(NoneText)
                 ELSE nodes[k].date = Str(MatchText(FirstMatch(col)))

\* C13 witness: a node whose date comes from the column at the right of the
\* anchor while a later row holds another match with another text in the
\* anchor column or at its left.
C13_Witness ==
    \E k \in 1..Len(nodes) :
        /\ WindowMatches(NodeCol(k)) # {}
        /\ FirstMatch(NodeCol(k))[2] = NodeCol(k) + 1
        /\ nodes[k].date = Str(MatchText(FirstMatch(NodeCol(k))))
        /\ \E b \in WindowMatches(NodeCol(k)) :
               /\ b[1] > FirstMatch(NodeCol(k))[1]
               /\ b[2] <= NodeCol(k)
               /\ MatchText(b) # MatchText(FirstMatch(NodeCol(k)))

---------------------------------------------------------------------------
(* Format B of get_components, checked under SpecComponents.               *)

\* a name cell of Format B: a text that is not blank
NameText(v) == IsStr(v) /\ \E d \in 1..Len(v.s) : v.s[d] \notin Whitespace

\* the leftmost column of row r with a text holding the header
FabricCol(r) ==
    CHOOSE c \in 0..(ncols - 1) :
        /\ IsFabricHeader(iat(r, c))
        /\ \A e \in 0..(c - 1) : ~IsFabricHeader(iat(r, e))

\* the length of the maximal run of name texts of column c from row r + 1
NameRunLength(r, c) ==
    CHOOSE m \in 0..nrows :
        /\ r + m < nrows
        /\ \A k \in (r + 1)..(r + m) : NameText(iat(k, c))
        /\ (r + m + 1 < nrows => ~NameText(iat(r + m + 1, c)))

\* the header rows below the first one that have a name text below them
LaterFabricRowsWithData ==
    {r \in FabricRows : r > UsedFabricRow /\ NameRunLength(r, FabricCol(r)) > 0}

\* C14: when Format B gives the result (Format A yields nothing), the
\* components are those of the rows directly below the topmost row with a
\* "Major Fabric Breakdown" text, down to the first name cell that is no
\* non-empty text; header rows further down contribute nothing, also when
\* the topmost one has no data row below it and the list is empty.
C14_FirstFabricHeaderOnly ==
    (pc = "done" /\ YieldingRows = {}) =>
        IF FabricRows = {} THEN components = <<>>
        ELSE LET r == UsedFabricRow
                 c == FabricCol(UsedFabricRow)
             IN  /\ Len(components) = NameRunLength(r, c)
                 /\ \A d \in 1..Len(components) :
                        /\ components[d].name = Str(Strip(iat(r + d, c).s))
                        /\ components[d] = Head(RunB(r + d, r, c))

\* C14 witness: the topmost header row has no data row below it, a later
\* header row has one, and the list returned is empty.
C14_Witness ==
    /\ pc = "done"
    /\ YieldingRows = {}
    /\ FabricRows # {}
    /\ NameRunLength(UsedFabricRow, FabricCol(UsedFabricRow)) = 0
    /\ LaterFabricRowsWithData # {}
    /\ components = <<>>
=============================================================================
